---- MODULE Spec2Model ----
(***************************************************************************)
(* A model of the media-catalog backend of src/app.py: the users and songs *)
(* tables (SQLite), the blob directory SONG_DIRECTORY, the cookie session  *)
(* of each client, and one action per route handler.                       *)
(*                                                                         *)
(* Text that the code inspects character by character (the uploaded file's *)
(* name, the duration field) is a sequence of one-character strings; text  *)
(* that the code only stores and compares (usernames, passwords, titles,   *)
(* authors, blob bytes) is a string.  A value that may be None in Python   *)
(* (dict.get of an absent key) is a set: {} for None, {v} for v.           *)
(***************************************************************************)
EXTENDS Integers, Sequences, FiniteSets, TLC

VARIABLES
    users,      \* the users table: id -> [username, password (the hash)]
    userSeq,    \* the users table's AUTOINCREMENT counter
    songs,      \* the songs table: id -> [title, author, duration,
                \* music_file_url]
    songSeq,    \* the songs table's AUTOINCREMENT counter
    blobs,      \* SONG_DIRECTORY: file name -> bytes
    session,    \* client -> {} or {user_id}: the client's session cookie
    inflight,   \* client -> the request whose store call is still to come
    req,        \* the request answered last
    resp,       \* its answer
    uploaded,   \* history: id -> what the upload answered with that id gave
                \* to add_song, and the bytes it stored
    deletedIds  \* history: the ids whose delete was answered 200

vars == <<users, userSeq, songs, songSeq, blobs, session, inflight,
          req, resp, uploaded, deletedIds>>

(***************************************************************************)
(* Bounds of the model.                                                    *)
(***************************************************************************)
\* The songs table's AUTOINCREMENT counter is capped: no upload is started
\* once MaxSongs ids have been handed out.
MaxSongs == 3
\* No register is started once MaxUsers rows have been inserted.
MaxUsers == 3

Clients == {"c1", "c2"}

(***************************************************************************)
(* Optional values: request.get_json().get(k), request.form.get(k).        *)
(***************************************************************************)
Missing == {}
Some(v) == {v}
Val(o) == CHOOSE v \in o : TRUE
\* Python's truth value of an optional str: None and "" are false.
Truthy(o) == o # Missing /\ Val(o) # ""
\* The same for an optional text kept as a sequence of characters.
TruthySeq(o) == o # Missing /\ Val(o) # <<>>

(***************************************************************************)
(* werkzeug.security: a salted one-way hash.  The digest is an injective   *)
(* function of (salt, password); verification recomputes it with the salt  *)
(* stored in the hash.                                                     *)
(***************************************************************************)
\* The salt is drawn at random; no handler reads which one was drawn.
Salts == {"s1"}
Digest(salt, password) == <<salt, password>>
generate_password_hash(password, salt) ==
    [salt |-> salt, digest |-> Digest(salt, password)]
check_password_hash(pwhash, password) ==
    pwhash.digest = Digest(pwhash.salt, password)

(***************************************************************************)
(* str.isdigit and int(): "sup2" stands for U+00B2 (SUPERSCRIPT TWO), a    *)
(* character with the Unicode digit property that is no decimal digit;     *)
(* "ar3" stands for U+0663 (ARABIC-INDIC DIGIT THREE), a decimal digit.    *)
(***************************************************************************)
AsciiDigits == {"0", "1", "2", "3", "4", "5", "6", "7", "8", "9"}
DecimalValue(ch) ==
    CASE ch = "0" -> 0 [] ch = "1" -> 1 [] ch = "2" -> 2 [] ch = "3" -> 3
      [] ch = "4" -> 4 [] ch = "5" -> 5 [] ch = "6" -> 6 [] ch = "7" -> 7
      [] ch = "8" -> 8 [] ch = "9" -> 9 [] ch = "ar3" -> 3
DecimalChars == AsciiDigits \cup {"ar3"}
DigitChars == DecimalChars \cup {"sup2"}

isdigit(s) == Len(s) > 0 /\ \A i \in 1..Len(s) : s[i] \in DigitChars

\* int(s) raises ValueError unless every character is a decimal digit (the
\* strings that reach it hold no sign, blank or underscore: isdigit passed).
IntRaises(s) == Len(s) = 0 \/ \E i \in 1..Len(s) : s[i] \notin DecimalChars

RECURSIVE IntOf(_)
IntOf(s) ==
    IF Len(s) = 0 THEN 0
    ELSE 10 * IntOf(SubSeq(s, 1, Len(s) - 1)) + DecimalValue(s[Len(s)])

(***************************************************************************)
(* allowed_file and werkzeug.utils.secure_filename.                        *)
(***************************************************************************)
\* config.py is not part of the sources; the test uploads test.mp3 and
\* expects 200, so "mp3" is in the allow-list.
ALLOWED_EXTENSIONS == {<<"m", "p", "3">>}

LowerChar(ch) ==
    CASE ch = "A" -> "a" [] ch = "B" -> "b" [] ch = "M" -> "m"
      [] ch = "P" -> "p" [] ch = "E" -> "e" [] ch = "X" -> "x"
      [] OTHER -> ch
lower(s) == [i \in 1..Len(s) |-> LowerChar(s[i])]

\* Position of the last "." of s, 0 when there is none.
RECURSIVE LastDot(_)
LastDot(s) ==
    IF Len(s) = 0 THEN 0
    ELSE IF s[Len(s)] = "." THEN Len(s)
    ELSE LastDot(SubSeq(s, 1, Len(s) - 1))

\* filename.rsplit('.', 1)[1]
Extension(s) == SubSeq(s, LastDot(s) + 1, Len(s))

allowed_file(filename) ==
    /\ LastDot(filename) # 0
    /\ lower(Extension(filename)) \in ALLOWED_EXTENSIONS

\* [A-Za-z0-9_.-]: what _filename_ascii_strip_re keeps.
SafeChars == AsciiDigits \cup {"_", ".", "-"} \cup
             {"a", "b", "m", "p", "e", "x", "A", "B", "M", "P", "E", "X"}
Whitespace == {" "}

\* filename.replace(os.sep, " ")
ReplaceSep(s) == [i \in 1..Len(s) |-> IF s[i] = "/" THEN " " ELSE s[i]]

\* "_".join(s.split()): runs of blanks become one "_", none at either end.
\* gap: a blank was read since the last character of a word already in acc.
RECURSIVE SplitJoin(_, _, _)
SplitJoin(s, acc, gap) ==
    IF s = <<>> THEN acc
    ELSE IF Head(s) \in Whitespace
    THEN SplitJoin(Tail(s), acc, acc # <<>>)
    ELSE SplitJoin(Tail(s),
                   (IF gap THEN Append(acc, "_") ELSE acc) \o <<Head(s)>>,
                   FALSE)

IsSafeChar(ch) == ch \in SafeChars
\* _filename_ascii_strip_re.sub("", s)
StripUnsafe(s) == SelectSeq(s, IsSafeChar)

\* s.strip("._")
RECURSIVE LStrip(_)
LStrip(s) ==
    IF s # <<>> /\ Head(s) \in {".", "_"} THEN LStrip(Tail(s)) ELSE s
RECURSIVE RStrip(_)
RStrip(s) ==
    IF s # <<>> /\ s[Len(s)] \in {".", "_"}
    THEN RStrip(SubSeq(s, 1, Len(s) - 1)) ELSE s

secure_filename(filename) ==
    RStrip(LStrip(StripUnsafe(SplitJoin(ReplaceSep(filename), <<>>, FALSE))))

(***************************************************************************)
(* Requests and responses.  req is the last request a handler answered and *)
(* resp its answer: every action that answers a request sets both.         *)
(***************************************************************************)
NoBody == <<>>
Response(status, error, id, body, bytes) ==
    [status |-> status, error |-> error, id |-> id, body |-> body,
     bytes |-> bytes]
\* jsonify({"error": error}), status
Error(status, error) == Response(status, error, 0, NoBody, "")
\* jsonify({"message": message}), status
Message(status) == Response(status, "", 0, NoBody, "")
\* An exception no handler catches: Flask answers 500.
Fault == Error(500, "Internal Server Error")

Request(op, c, args) == [op |-> op, client |-> c, args |-> args]

Idle == [op |-> "idle"]

(***************************************************************************)
(* The users table and AuthService.                                        *)
(***************************************************************************)
\* Mutant: the UNIQUE constraint on users.username is left out.
UniqueNotEnforced(username) == FALSE

\* username TEXT NOT NULL UNIQUE: the INSERT raises sqlite3.IntegrityError.
UniqueViolated(username) ==
    \E i \in DOMAIN users : users[i].username = username

\* INSERT INTO users (username, password): id INTEGER PRIMARY KEY
\* AUTOINCREMENT takes the next value of the table's counter.
InsertUser(tbl, seq, username, pwhash) ==
    tbl @@ ((seq + 1) :> [username |-> username, password |-> pwhash])

\* SELECT id, password FROM users WHERE username = ?; fetchone().  A None
\* username matches no row (NULL = NULL is not true in SQL).
UserRowOf(username) ==
    IF username = Missing THEN {}
    ELSE LET ids == {i \in DOMAIN users : users[i].username = Val(username)}
         IN  IF ids = {} THEN {}
             ELSE {CHOOSE i \in ids : \A j \in ids : i <= j}

\* check_password_hash(user[1], None) raises (None has no encode()).
VerifyRaises(username, password) ==
    UserRowOf(username) # {} /\ password = Missing

\* Mutant: the password is not checked.
verify_user_unchecked(username, password) == UserRowOf(username)

\* AuthService.verify_user: {id} on success, {} for None.
verify_user(username, password) ==
    LET user == UserRowOf(username)
    IN  IF user # {} /\ check_password_hash(users[Val(user)].password,
                                           Val(password))
        THEN user
        ELSE {}

\* AuthService.get_username_by_id: {username}, or {} for None.
get_username_by_id(user_id) ==
    IF user_id \in DOMAIN users THEN {users[user_id].username} ELSE {}

\* login_required: 'user_id' in session
LoggedIn(c) == session[c] # {}

(***************************************************************************)
(* /register.  The handler validates and hashes (RegisterBegin), then      *)
(* issues its one store call, the INSERT (RegisterInsert); another         *)
(* request's store call may come between the two.                          *)
(***************************************************************************)
RegisterBegin(c, username, password) ==
    /\ inflight[c] = Idle
    /\ userSeq < MaxUsers
    /\ IF ~Truthy(username) \/ ~Truthy(password)
       THEN /\ req' = Request("register", c,
                              [username |-> username, password |-> password])
            /\ resp' = Error(400, "Username and password are required")
            /\ UNCHANGED inflight
       ELSE /\ \E salt \in Salts :
                 inflight' = [inflight EXCEPT ![c] =
                     [op |-> "register",
                      username |-> username,
                      password |-> password,
                      hashed_password |->
                          generate_password_hash(Val(password), salt)]]
            /\ UNCHANGED <<req, resp>>
    /\ UNCHANGED <<users, userSeq, songs, songSeq, blobs, session,
                   uploaded, deletedIds>>

RegisterInsert(c) ==
    /\ inflight[c].op = "register"
    /\ inflight' = [inflight EXCEPT ![c] = Idle]
    /\ req' = Request("register", c,
                      [username |-> inflight[c].username,
                       password |-> inflight[c].password])
    /\ IF UniqueViolated(Val(inflight[c].username))
       THEN /\ resp' = Error(409, "Username already exists")
            /\ UNCHANGED <<users, userSeq>>
       ELSE /\ users' = InsertUser(users, userSeq, Val(inflight[c].username),
                                   inflight[c].hashed_password)
            /\ userSeq' = userSeq + 1
            /\ resp' = Message(201)
    /\ UNCHANGED <<songs, songSeq, blobs, session, uploaded, deletedIds>>

(***************************************************************************)
(* /login and /logout.                                                     *)
(***************************************************************************)
Login(c, username, password) ==
    /\ inflight[c] = Idle
    /\ req' = Request("login", c,
                      [username |-> username, password |-> password])
    /\ IF VerifyRaises(username, password)
       THEN /\ resp' = Fault
            /\ UNCHANGED session
       ELSE LET user_id == verify_user(username, password)
            IN  IF user_id # {}
                THEN /\ session' = [session EXCEPT ![c] = user_id]
                     /\ resp' = Message(200)
                ELSE /\ resp' = Error(401, "Invalid username or password")
                     /\ UNCHANGED session
    /\ UNCHANGED <<users, userSeq, songs, songSeq, blobs, inflight,
                   uploaded, deletedIds>>

\* Mutant: the pop names a key the session does not hold.
PopOtherKey(s, c) == s

\* session.pop('user_id', None)
PopUserId(s, c) == [s EXCEPT ![c] = {}]

Logout(c) ==
    /\ inflight[c] = Idle
    /\ req' = Request("logout", c, [none |-> TRUE])
    /\ IF ~LoggedIn(c)
       THEN /\ resp' = Error(401, "Authentication required")
            /\ UNCHANGED session
       ELSE /\ session' = PopUserId(session, c)
            /\ resp' = Message(200)
    /\ UNCHANGED <<users, userSeq, songs, songSeq, blobs, inflight,
                   uploaded, deletedIds>>

(***************************************************************************)
(* The songs table and DatabaseService.                                    *)
(***************************************************************************)
\* title, author TEXT NOT NULL: the INSERT raises sqlite3.IntegrityError
\* when request.form.get gave None.
AddSongRaises(title, author) == title = Missing \/ author = Missing

\* Mutant: id INTEGER PRIMARY KEY without AUTOINCREMENT: one more than the
\* largest id now in the table, so the id of a deleted last row is reused.
MaxRowidPlusOne ==
    IF DOMAIN songs = {} THEN 1
    ELSE (CHOOSE i \in DOMAIN songs : \A j \in DOMAIN songs : j <= i) + 1

\* id INTEGER PRIMARY KEY AUTOINCREMENT: one more than the largest id the
\* table ever held (sqlite_sequence), also after that row was deleted.
NextSongId == songSeq + 1

\* Mutant: the INSERT binds title and author in the wrong order.
InsertSongSwapped(tbl, song_id, title, author, duration, music_file_url) ==
    tbl @@ (song_id :> [title |-> author, author |-> title,
                        duration |-> duration,
                        music_file_url |-> music_file_url])

\* DatabaseService.add_song: the row inserted under cursor.lastrowid.
InsertSong(tbl, song_id, title, author, duration, music_file_url) ==
    tbl @@ (song_id :> [title |-> title, author |-> author,
                        duration |-> duration,
                        music_file_url |-> music_file_url])

\* DatabaseService.get_song: {row} or {} for None.
get_song(song_id) ==
    IF song_id \in DOMAIN songs THEN {songs[song_id]} ELSE {}

\* Mutant: the DELETE is never committed.
DeleteRowUncommitted(tbl, song_id) == tbl

\* DELETE FROM songs WHERE id = ?
DeleteRow(tbl, song_id) == [i \in DOMAIN tbl \ {song_id} |-> tbl[i]]

\* The dict that serve_song and get_all_songs build of a row.
SongData(song_id, song) ==
    [id |-> song_id, title |-> song.title, author |-> song.author,
     duration |-> song.duration, music_file_url |-> song.music_file_url]

\* DatabaseService.get_all_songs and the loop of the /songs handler: the
\* rows in rowid order.
RECURSIVE RowsFrom(_, _)
RowsFrom(tbl, ids) ==
    IF ids = {} THEN <<>>
    ELSE LET i == CHOOSE x \in ids : \A y \in ids : x <= y
         IN  <<SongData(i, tbl[i])>> \o RowsFrom(tbl, ids \ {i})
get_all_songs == RowsFrom(songs, DOMAIN songs)

(***************************************************************************)
(* The blob directory SONG_DIRECTORY: file name -> bytes.                  *)
(***************************************************************************)
\* file.save(os.path.join(SONG_DIRECTORY, filename)): creates or overwrites.
SaveFile(dir, filename, bytes) ==
    [f \in DOMAIN dir \cup {filename} |->
        IF f = filename THEN bytes ELSE dir[f]]

\* if os.path.exists(file_path): os.remove(file_path)
RemoveFile(dir, filename) == [f \in DOMAIN dir \ {filename} |-> dir[f]]

(***************************************************************************)
(* The admin check at the top of /upload and DELETE /songs/<id>.           *)
(***************************************************************************)
\* Mutant: any logged-in user passes.
AuthorizeAnyUser(c) ==
    IF ~LoggedIn(c) THEN "Unauthenticated" ELSE "Allowed"

Authorize(c) ==
    IF ~LoggedIn(c) THEN "Unauthenticated"
    ELSE IF get_username_by_id(Val(session[c])) # {"admin"} THEN "Forbidden"
    ELSE "Allowed"

(***************************************************************************)
(* /upload.  u.file is request.files.get('file'): a file name and bytes;   *)
(* u.title, u.author, u.duration are the form fields.                      *)
(***************************************************************************)
\* The answer to an upload that passed the admin check, by the checks of
\* lines 173-203 in their order; "save" when the file is to be stored.
UploadOutcome(u) ==
    IF u.file = Missing THEN "No file part"
    ELSE IF ~TruthySeq(u.duration) \/ ~isdigit(Val(u.duration))
    THEN "Invalid duration provided"
    ELSE IF IntRaises(Val(u.duration)) THEN "ValueError"
    ELSE IF Val(u.file).filename # <<>> /\ allowed_file(Val(u.file).filename)
    THEN "save"
    ELSE "Invalid file format"

Upload(c, u) ==
    /\ inflight[c] = Idle
    /\ songSeq < MaxSongs
    /\ req' = Request("upload", c, u)
    /\ CASE Authorize(c) = "Unauthenticated" ->
              /\ resp' = Error(401, "Authentication required")
              /\ UNCHANGED <<songs, songSeq, blobs, uploaded>>
         [] Authorize(c) = "Forbidden" ->
              /\ resp' = Error(403,
                     "You do not have permission to upload songs")
              /\ UNCHANGED <<songs, songSeq, blobs, uploaded>>
         [] Authorize(c) = "Allowed" /\ UploadOutcome(u) = "ValueError" ->
              /\ resp' = Fault
              /\ UNCHANGED <<songs, songSeq, blobs, uploaded>>
         [] Authorize(c) = "Allowed" /\ UploadOutcome(u) = "save" ->
              LET file == Val(u.file)
                  duration == IntOf(Val(u.duration))
                  filename == secure_filename(file.filename)
                  song_id == NextSongId
              IN  /\ blobs' = SaveFile(blobs, filename, file.bytes)
                  /\ IF AddSongRaises(u.title, u.author)
                     THEN /\ resp' = Fault
                          /\ UNCHANGED <<songs, songSeq, uploaded>>
                     ELSE /\ songs' = InsertSong(songs, song_id,
                                         Val(u.title), Val(u.author),
                                         duration, filename)
                          /\ songSeq' = song_id
                          /\ uploaded' = uploaded @@ (song_id :>
                                 [title |-> Val(u.title),
                                  author |-> Val(u.author),
                                  duration |-> duration,
                                  music_file_url |-> filename,
                                  bytes |-> file.bytes])
                          /\ resp' = Response(200, "", song_id,
                                 <<[id |-> song_id,
                                    title |-> Val(u.title),
                                    author |-> Val(u.author),
                                    duration |-> duration,
                                    music_file_url |-> filename]>>, "")
         [] OTHER ->
              /\ resp' = Error(400, UploadOutcome(u))
              /\ UNCHANGED <<songs, songSeq, blobs, uploaded>>
    /\ UNCHANGED <<users, userSeq, session, inflight, deletedIds>>

(***************************************************************************)
(* DELETE /songs/<id>.                                                     *)
(***************************************************************************)
Delete(c, song_id) ==
    /\ inflight[c] = Idle
    /\ req' = Request("delete", c, [song_id |-> song_id])
    /\ CASE Authorize(c) = "Unauthenticated" ->
              /\ resp' = Error(401, "Authentication required")
              /\ UNCHANGED <<songs, blobs, deletedIds>>
         [] Authorize(c) = "Forbidden" ->
              /\ resp' = Error(403,
                     "You do not have permission to delete songs")
              /\ UNCHANGED <<songs, blobs, deletedIds>>
         [] Authorize(c) = "Allowed" /\ get_song(song_id) # {} ->
              /\ blobs' = RemoveFile(blobs, songs[song_id].music_file_url)
              /\ songs' = DeleteRow(songs, song_id)
              /\ deletedIds' = deletedIds \cup {song_id}
              /\ resp' = Response(200, "", song_id, NoBody, "")
         [] OTHER ->
              /\ resp' = Response(404, "Song not found", song_id, NoBody, "")
              /\ UNCHANGED <<songs, blobs, deletedIds>>
    /\ UNCHANGED <<users, userSeq, songSeq, session, inflight, uploaded>>

(***************************************************************************)
(* GET /songs/<id>, GET /songs, GET /play/<id>.                            *)
(***************************************************************************)
\* abort(404), and send_from_directory of a file that does not exist.
NotFound(song_id) == Response(404, "Not Found", song_id, NoBody, "")

GetResponse(c, song_id) ==
    IF ~LoggedIn(c) THEN Error(401, "Authentication required")
    ELSE IF get_song(song_id) # {}
    THEN Response(200, "", song_id,
                  <<SongData(song_id, Val(get_song(song_id)))>>, "")
    ELSE NotFound(song_id)

Get(c, song_id) ==
    /\ inflight[c] = Idle
    /\ req' = Request("get", c, [song_id |-> song_id])
    /\ resp' = GetResponse(c, song_id)
    /\ UNCHANGED <<users, userSeq, songs, songSeq, blobs, session, inflight,
                   uploaded, deletedIds>>

ListResponse(c) ==
    IF ~LoggedIn(c) THEN Error(401, "Authentication required")
    ELSE Response(200, "", 0, get_all_songs, "")

List(c) ==
    /\ inflight[c] = Idle
    /\ req' = Request("list", c, [none |-> TRUE])
    /\ resp' = ListResponse(c)
    /\ UNCHANGED <<users, userSeq, songs, songSeq, blobs, session, inflight,
                   uploaded, deletedIds>>

\* play_song carries no login_required.
PlayResponse(song_id) ==
    IF get_song(song_id) = {} THEN NotFound(song_id)
    ELSE LET song_file == Val(get_song(song_id)).music_file_url
         IN  IF song_file \in DOMAIN blobs
             THEN Response(200, "", song_id, NoBody, blobs[song_file])
             ELSE NotFound(song_id)

Play(c, song_id) ==
    /\ inflight[c] = Idle
    /\ req' = Request("play", c, [song_id |-> song_id])
    /\ resp' = PlayResponse(song_id)
    /\ UNCHANGED <<users, userSeq, songs, songSeq, blobs, session, inflight,
                   uploaded, deletedIds>>

(***************************************************************************)
(* Inputs of the identity routes.                                          *)
(***************************************************************************)
Usernames == {Missing, Some(""), Some("admin"), Some("bob")}
Passwords == {Missing, Some(""), Some("pw1"), Some("pw2")}

(***************************************************************************)
(* SpecAuth: the identity routes on a fresh database.                      *)
(***************************************************************************)
EmptyTable == <<>>

InitAuth ==
    /\ users = EmptyTable
    /\ userSeq = 0
    /\ songs = EmptyTable
    /\ songSeq = 0
    /\ blobs = EmptyTable
    /\ session = [c \in Clients |-> {}]
    /\ inflight = [c \in Clients |-> Idle]
    /\ req = Request("none", "c1", [none |-> TRUE])
    /\ resp = Message(0)
    /\ uploaded = EmptyTable
    /\ deletedIds = {}

NextAuth ==
    \E c \in Clients :
        \/ \E u \in Usernames, p \in Passwords : RegisterBegin(c, u, p)
        \/ RegisterInsert(c)
        \/ \E u \in Usernames, p \in Passwords : Login(c, u, p)
        \/ Logout(c)

SpecAuth == InitAuth /\ [][NextAuth]_vars
(***************************************************************************)
(* Inputs of the catalog routes.                                           *)
(***************************************************************************)
File(filename, bytes) == Some([filename |-> filename, bytes |-> bytes])
Form(file, title, author, duration) ==
    [file |-> file, title |-> title, author |-> author, duration |-> duration]

FileA == File(<<"a", ".", "m", "p", "3">>, "bytes-x")
\* "../a.mp3": secure_filename gives "a.mp3" again.
FileA2 == File(<<".", ".", "/", "a", ".", "m", "p", "3">>, "bytes-y")
FileB == File(<<"b", ".", "M", "P", "3">>, "bytes-z")
FileExe == File(<<"a", ".", "e", "x", "e">>, "bytes-x")
FileNoDot == File(<<"m", "p", "3">>, "bytes-x")
FileNoName == File(<<>>, "bytes-x")

D180 == Some(<<"1", "8", "0">>)
D7 == Some(<<"7">>)
DAbc == Some(<<"a", "b", "c">>)
DNeg == Some(<<"-", "5">>)
DSup == Some(<<"sup2">>)

ValidUploads ==
    { Form(FileA, Some("T"), Some("A"), D180),
      Form(FileA2, Some("U"), Some("B"), D7) }
\* The file is stored and the INSERT raises: no title.
RejectedInserts == { Form(FileB, Missing, Some("A"), D180) }
InvalidUploads ==
    { Form(Missing, Some("T"), Some("A"), D180),
      Form(Missing, Some("T"), Some("A"), DAbc),
      Form(FileA, Some("T"), Some("A"), Missing),
      Form(FileA, Some("T"), Some("A"), Some(<<>>)),
      Form(FileExe, Some("T"), Some("A"), DAbc),
      Form(FileA, Some("T"), Some("A"), DNeg),
      Form(FileA, Some("T"), Some("A"), DSup),
      Form(FileExe, Some("T"), Some("A"), D180),
      Form(FileNoDot, Some("T"), Some("A"), D180),
      Form(FileNoName, Some("T"), Some("A"), D180) }
UploadRequests == ValidUploads \cup RejectedInserts \cup InvalidUploads

\* One id more than was ever handed out is asked for too.
SongIds == 1..(MaxSongs + 1)

\* The credentials the catalog's clients log in with: the two registered
\* users, and a wrong password.
Logins == { <<Some("admin"), Some("pw1")>>, <<Some("bob"), Some("pw2")>>,
            <<Some("admin"), Some("pw2")>> }

(***************************************************************************)
(* Spec: the catalog routes, on a database in which "admin" and "bob" have *)
(* registered (a state SpecAuth reaches).  Each request runs to            *)
(* completion; a handler reads no session but its caller's, so one client  *)
(* issues the requests.                                                    *)
(***************************************************************************)
RegisteredUsers ==
    InsertUser(
        InsertUser(EmptyTable, 0, "admin",
                   generate_password_hash("pw1", "s1")),
        1, "bob", generate_password_hash("pw2", "s1"))

Init ==
    /\ users = RegisteredUsers
    /\ userSeq = 2
    /\ songs = EmptyTable
    /\ songSeq = 0
    /\ blobs = EmptyTable
    /\ session = [c \in Clients |-> {}]
    /\ inflight = [c \in Clients |-> Idle]
    /\ req = Request("none", "c1", [none |-> TRUE])
    /\ resp = Message(0)
    /\ uploaded = EmptyTable
    /\ deletedIds = {}

CatalogClients == {"c1"}

Next ==
    \E c \in CatalogClients :
        \/ \E l \in Logins : Login(c, l[1], l[2])
        \/ Logout(c)
        \/ \E u \in UploadRequests : Upload(c, u)
        \/ \E i \in SongIds : Delete(c, i)
        \/ \E i \in SongIds : Get(c, i)
        \/ List(c)
        \/ \E i \in SongIds : Play(c, i)

Spec == Init /\ [][Next]_vars

(***************************************************************************)
(* /upload and DELETE /songs/<id> step by step.  Flask serves requests in  *)
(* threads, and each handler opens a connection of its own, so the steps   *)
(* of two requests interleave between the file operations and the SQL      *)
(* statements.  inflight[c] holds the handler's locals between its steps;  *)
(* req and resp are set when the request is answered.  SQLite serialises   *)
(* writers: an INSERT or DELETE with its commit is one step.               *)
(***************************************************************************)
\* The uploads that have stored their file and not yet inserted their row.
UploadsInFlight == { c \in Clients : inflight[c].op = "upload" }

\* upload_song up to file.save (lines 166-189).
UploadBegin(c, u) ==
    /\ inflight[c] = Idle
    /\ songSeq + Cardinality(UploadsInFlight) < MaxSongs
    /\ CASE Authorize(c) = "Unauthenticated" ->
              /\ req' = Request("upload", c, u)
              /\ resp' = Error(401, "Authentication required")
              /\ UNCHANGED <<blobs, inflight>>
         [] Authorize(c) = "Forbidden" ->
              /\ req' = Request("upload", c, u)
              /\ resp' = Error(403,
                     "You do not have permission to upload songs")
              /\ UNCHANGED <<blobs, inflight>>
         [] Authorize(c) = "Allowed" /\ UploadOutcome(u) = "ValueError" ->
              /\ req' = Request("upload", c, u)
              /\ resp' = Fault
              /\ UNCHANGED <<blobs, inflight>>
         [] Authorize(c) = "Allowed" /\ UploadOutcome(u) = "save" ->
              LET file == Val(u.file)
                  filename == secure_filename(file.filename)
              IN  /\ blobs' = SaveFile(blobs, filename, file.bytes)
                  /\ inflight' = [inflight EXCEPT ![c] =
                         [op |-> "upload", form |-> u,
                          duration |-> IntOf(Val(u.duration)),
                          music_file_url |-> filename]]
                  /\ UNCHANGED <<req, resp>>
         [] OTHER ->
              /\ req' = Request("upload", c, u)
              /\ resp' = Error(400, UploadOutcome(u))
              /\ UNCHANGED <<blobs, inflight>>
    /\ UNCHANGED <<users, userSeq, songs, songSeq, session, uploaded,
                   deletedIds>>

\* db_service.add_song and the answer (lines 192-201).
UploadInsert(c) ==
    /\ inflight[c].op = "upload"
    /\ LET u == inflight[c].form
           duration == inflight[c].duration
           filename == inflight[c].music_file_url
           song_id == NextSongId
       IN  /\ req' = Request("upload", c, u)
           /\ IF AddSongRaises(u.title, u.author)
              THEN /\ resp' = Fault
                   /\ UNCHANGED <<songs, songSeq, uploaded>>
              ELSE /\ songs' = InsertSong(songs, song_id,
                                  Val(u.title), Val(u.author),
                                  duration, filename)
                   /\ songSeq' = song_id
                   /\ uploaded' = uploaded @@ (song_id :>
                          [title |-> Val(u.title),
                           author |-> Val(u.author),
                           duration |-> duration,
                           music_file_url |-> filename,
                           bytes |-> Val(u.file).bytes])
                   /\ resp' = Response(200, "", song_id,
                          <<[id |-> song_id,
                             title |-> Val(u.title),
                             author |-> Val(u.author),
                             duration |-> duration,
                             music_file_url |-> filename]>>, "")
    /\ inflight' = [inflight EXCEPT ![c] = Idle]
    /\ UNCHANGED <<users, userSeq, blobs, session, deletedIds>>

\* delete_song up to the SELECT (lines 207-220, 231-233).
DeleteSelect(c, song_id) ==
    /\ inflight[c] = Idle
    /\ CASE Authorize(c) = "Unauthenticated" ->
              /\ req' = Request("delete", c, [song_id |-> song_id])
              /\ resp' = Error(401, "Authentication required")
              /\ UNCHANGED inflight
         [] Authorize(c) = "Forbidden" ->
              /\ req' = Request("delete", c, [song_id |-> song_id])
              /\ resp' = Error(403,
                     "You do not have permission to delete songs")
              /\ UNCHANGED inflight
         [] Authorize(c) = "Allowed" /\ get_song(song_id) # {} ->
              /\ inflight' = [inflight EXCEPT ![c] =
                     [op |-> "delete", pc |-> "exists",
                      song_id |-> song_id,
                      file_path |-> songs[song_id].music_file_url]]
              /\ UNCHANGED <<req, resp>>
         [] OTHER ->
              /\ req' = Request("delete", c, [song_id |-> song_id])
              /\ resp' = Response(404, "Song not found", song_id, NoBody, "")
              /\ UNCHANGED inflight
    /\ UNCHANGED <<users, userSeq, songs, songSeq, blobs, session, uploaded,
                   deletedIds>>

\* Mutant: the test is skipped, the file is taken to be there.
AlwaysExists(dir, file_path) == TRUE

\* os.path.exists(file_path)
exists(dir, file_path) == file_path \in DOMAIN dir

\* if os.path.exists(file_path): (line 223)
DeleteExists(c) ==
    /\ inflight[c].op = "delete"
    /\ inflight[c].pc = "exists"
    /\ inflight' = [inflight EXCEPT ![c].pc =
           IF exists(blobs, inflight[c].file_path) THEN "remove"
           ELSE "commit"]
    /\ UNCHANGED <<users, userSeq, songs, songSeq, blobs, session, req,
                   resp, uploaded, deletedIds>>

\* os.remove(file_path) (line 224): raises FileNotFoundError when the file
\* has gone since the test; the handler ends there and the row stays.
DeleteRemove(c) ==
    /\ inflight[c].op = "delete"
    /\ inflight[c].pc = "remove"
    /\ IF inflight[c].file_path \in DOMAIN blobs
       THEN /\ blobs' = RemoveFile(blobs, inflight[c].file_path)
            /\ inflight' = [inflight EXCEPT ![c].pc = "commit"]
            /\ UNCHANGED <<req, resp>>
       ELSE /\ req' = Request("delete", c,
                              [song_id |-> inflight[c].song_id])
            /\ resp' = Fault
            /\ inflight' = [inflight EXCEPT ![c] = Idle]
            /\ UNCHANGED blobs
    /\ UNCHANGED <<users, userSeq, songs, songSeq, session, uploaded,
                   deletedIds>>

\* The DELETE, its commit and the answer (lines 227-230).  A DELETE that
\* matches no row is no error.
DeleteCommit(c) ==
    /\ inflight[c].op = "delete"
    /\ inflight[c].pc = "commit"
    /\ songs' = DeleteRow(songs, inflight[c].song_id)
    /\ deletedIds' = deletedIds \cup {inflight[c].song_id}
    /\ req' = Request("delete", c, [song_id |-> inflight[c].song_id])
    /\ resp' = Response(200, "", inflight[c].song_id, NoBody, "")
    /\ inflight' = [inflight EXCEPT ![c] = Idle]
    /\ UNCHANGED <<users, userSeq, songSeq, blobs, session, uploaded>>

\* The uploads of the step-by-step specifications: the two that are stored,
\* the one whose INSERT raises, and one that is refused.
StepUploads ==
    ValidUploads \cup RejectedInserts
        \cup { Form(FileExe, Some("T"), Some("A"), D180) }

\* The sessions the clients cs hold when the requests start: none, the
\* admin's or the other user's (each is reached by logins in Spec).
InitSessions(cs) ==
    { s \in [Clients -> {{}, {1}, {2}}] :
        \A c \in Clients \ cs : s[c] = {} }

InitSteps(cs) ==
    /\ users = RegisteredUsers
    /\ userSeq = 2
    /\ songs = EmptyTable
    /\ songSeq = 0
    /\ blobs = EmptyTable
    /\ session \in InitSessions(cs)
    /\ inflight = [c \in Clients |-> Idle]
    /\ req = Request("none", "c1", [none |-> TRUE])
    /\ resp = Message(0)
    /\ uploaded = EmptyTable
    /\ deletedIds = {}

(***************************************************************************)
(* SpecSteps: one client, whose requests follow one another, with the      *)
(* steps of each handler visible.                                          *)
(***************************************************************************)
InitSeq == InitSteps(CatalogClients)

NextSeq ==
    \E c \in CatalogClients :
        \/ \E u \in StepUploads : UploadBegin(c, u)
        \/ UploadInsert(c)
        \/ \E i \in SongIds : DeleteSelect(c, i)
        \/ DeleteExists(c)
        \/ DeleteRemove(c)
        \/ DeleteCommit(c)

SpecSteps == InitSeq /\ [][NextSeq]_vars

(***************************************************************************)
(* SpecConc: two clients whose requests are served at the same time.       *)
(***************************************************************************)
InitConc == InitSteps(Clients)

NextConc ==
    \E c \in Clients :
        \/ \E u \in StepUploads : UploadBegin(c, u)
        \/ UploadInsert(c)
        \/ \E i \in SongIds : DeleteSelect(c, i)
        \/ DeleteExists(c)
        \/ DeleteRemove(c)
        \/ DeleteCommit(c)

SpecConc == InitConc /\ [][NextConc]_vars

(***************************************************************************)
(* The properties checked of the model.                                    *)
(***************************************************************************)
\* The session of client c holds the id of the user named "admin".
AdminSession(c) ==
    \E i \in session[c] : i \in DOMAIN users /\ users[i].username = "admin"

\* C1: an upload or delete issued without a session user_id is answered 401,
\* one issued with a session whose user is not "admin" (or is no user) is
\* answered 403, whatever the request carries, and in both cases the songs
\* table and the blob directory are left as they were.
C1_OnlyAdminChangesCatalog ==
    [][ req'.op \in {"upload", "delete"} =>
          LET c == req'.client
          IN  /\ session[c] = {} => resp'.status = 401
              /\ session[c] # {} /\ ~AdminSession(c) => resp'.status = 403
              /\ ~AdminSession(c) => UNCHANGED <<songs, songSeq, blobs>>
      ]_vars

\* A logged-in user who is not the admin asked to delete an existing song
\* and was refused.
C1_Witness ==
    /\ req.op = "delete"
    /\ resp.status = 403
    /\ req.args.song_id \in DOMAIN songs

NoSharedUsername(tbl) ==
    \A i, j \in DOMAIN tbl : tbl[i].username = tbl[j].username => i = j

\* C2: no two users share a username.  A register request that carries a
\* username and a password is answered 201 or 409 only: when its INSERT
\* runs, it is answered 409 and the users table is unchanged if a row of
\* that username exists, and else 201 with exactly one new row of that
\* username; so of two requests for one username in flight together, the
\* first to reach the store succeeds and the other is answered 409.
C2_UniqueUsernames ==
    [][ /\ NoSharedUsername(users')
        /\ ( req'.op = "register" /\ Truthy(req'.args.username)
                                  /\ Truthy(req'.args.password)
             => resp'.status \in {201, 409} )
        /\ \A c \in Clients :
             inflight[c].op = "register" /\ inflight'[c] = Idle =>
               LET u == Val(inflight[c].username)
               IN  IF \E i \in DOMAIN users : users[i].username = u
                   THEN /\ resp' = Error(409, "Username already exists")
                        /\ users' = users
                   ELSE /\ resp'.status = 201
                        /\ \E i \in DOMAIN users' \ DOMAIN users :
                             /\ users'[i].username = u
                             /\ DOMAIN users' = DOMAIN users \cup {i}
                        /\ \A j \in DOMAIN users : users'[j] = users[j]
      ]_vars

\* A register of "bob" was answered 409 while another register of "bob" is
\* still in flight.
C2_Witness ==
    /\ req.op = "register"
    /\ req.args.username = Some("bob")
    /\ resp.status = 409
    /\ \E c \in Clients \ {req.client} :
         /\ inflight[c].op = "register"
         /\ inflight[c].username = Some("bob")

\* C3: a login with a password is answered 200, and the session set to the
\* id of the row that register(username, password) created, when there is
\* such a row; with any other password for that username, or a username
\* never registered, it is answered by the one 401 error and the session is
\* left as it was.
C3_VerifyAfterRegister ==
    [][ req'.op = "login" /\ req'.args.password # Missing =>
          LET c == req'.client
              u == req'.args.username
              p == Val(req'.args.password)
              made == {i \in DOMAIN users :
                         /\ u = Some(users[i].username)
                         /\ \E s \in Salts : users[i].password =
                                generate_password_hash(p, s)}
          IN  IF made # {}
              THEN resp'.status = 200 /\ session'[c] = made
              ELSE /\ resp' = Error(401, "Invalid username or password")
                   /\ session'[c] = session[c]
      ]_vars

\* The second user to register logged in and the session holds their id.
C3_Witness ==
    /\ req.op = "login"
    /\ resp.status = 200
    /\ session[req.client] = {2}

\* C4: each song row's file reference names a blob of the directory.
C4_EveryRowHasItsBlob ==
    \A i \in DOMAIN songs : songs[i].music_file_url \in DOMAIN blobs

\* int(): the text of a non-negative integer.
ParsesAsNonNegativeInt(d) ==
    /\ d # Missing
    /\ Val(d) # <<>>
    /\ \A k \in 1..Len(Val(d)) : Val(d)[k] \in DecimalChars

\* C5: an admin upload without a file part fails MissingFile; else one whose
\* duration is absent or is not the text of a non-negative integer fails
\* InvalidDuration; else one whose file extension is not allowed fails
\* UnsupportedFormat; each failure leaves the songs table and the blob
\* directory as they were.
C5_ValidationOrder ==
    [][ req'.op = "upload" /\ AdminSession(req'.client) =>
          LET u == req'.args
          IN  IF u.file = Missing
              THEN /\ resp' = Error(400, "No file part")
                   /\ UNCHANGED <<songs, songSeq, blobs>>
              ELSE IF ~ParsesAsNonNegativeInt(u.duration)
              THEN /\ resp' = Error(400, "Invalid duration provided")
                   /\ UNCHANGED <<songs, songSeq, blobs>>
              ELSE IF ~allowed_file(Val(u.file).filename)
              THEN /\ resp' = Error(400, "Invalid file format")
                   /\ UNCHANGED <<songs, songSeq, blobs>>
              ELSE TRUE
      ]_vars

\* C6: an admin delete of an id that has a row is answered 200 and removes
\* the row, and every get and play of that id from then on is answered 404;
\* an admin delete of an id without a row is answered 404 and changes
\* neither the songs table nor the blob directory.
C6_DeleteThenNotFound ==
    [][ /\ ( req'.op = "delete" /\ AdminSession(req'.client) =>
               LET id == req'.args.song_id
               IN  IF id \in DOMAIN songs
                   THEN /\ resp'.status = 200
                        /\ id \notin DOMAIN songs'
                        /\ id \in deletedIds'
                   ELSE /\ resp'.status = 404
                        /\ UNCHANGED <<songs, songSeq, blobs>> )
        /\ ( req'.op = "get" /\ req'.args.song_id \in deletedIds'
                             /\ session'[req'.client] # {}
             => resp'.status = 404 )
        /\ ( req'.op = "play" /\ req'.args.song_id \in deletedIds'
             => resp'.status = 404 )
      ]_vars

\* A get of a deleted id was answered 404 after a later upload.
C6_Witness ==
    /\ req.op = "get"
    /\ resp.status = 404
    /\ req.args.song_id \in deletedIds
    /\ \E j \in DOMAIN songs : j > req.args.song_id

\* C7: the list has one record for each song uploaded and not deleted, and
\* no other (so N records of N distinct ids after N uploads and no delete),
\* and get of a listed record's id returns that record.
C7_ListIsTheCatalog ==
    req.op = "list" /\ resp.status = 200 =>
      LET body == resp.body
          live == DOMAIN uploaded \ deletedIds
      IN  /\ Len(body) = Cardinality(live)
          /\ {body[k].id : k \in 1..Len(body)} = live
          /\ \A k \in 1..Len(body) :
               GetResponse(req.client, body[k].id).body = <<body[k]>>

\* A list of two songs, after a delete.
C7_Witness ==
    /\ req.op = "list"
    /\ resp.status = 200
    /\ Len(resp.body) = 2
    /\ deletedIds # {}

\* C8: get_song of an uploaded, undeleted id returns the title, author,
\* duration and file reference given to add_song, whatever was uploaded or
\* deleted since; the record a successful upload returns is that record,
\* of the form fields, the integer of the duration field and the sanitized
\* file name.
C8_AddGetRoundTrip ==
    /\ \A id \in DOMAIN uploaded \ deletedIds :
         get_song(id) = {[title |-> uploaded[id].title,
                          author |-> uploaded[id].author,
                          duration |-> uploaded[id].duration,
                          music_file_url |-> uploaded[id].music_file_url]}
    /\ ( req.op = "upload" /\ resp.status = 200 =>
           LET u == req.args
           IN  /\ resp.body =
                    <<[id |-> resp.id,
                       title |-> Val(u.title),
                       author |-> Val(u.author),
                       duration |-> IntOf(Val(u.duration)),
                       music_file_url |->
                           secure_filename(Val(u.file).filename)]>>
               /\ GetResponse(req.client, resp.id).body = resp.body )

\* Song 1 was fetched after song 2 was deleted and song 3 uploaded.
C8_Witness ==
    /\ req.op = "get"
    /\ resp.status = 200
    /\ req.args.song_id = 1
    /\ 2 \in deletedIds
    /\ 3 \in DOMAIN songs

\* C9: play of a song that has a row returns the bytes uploaded with it.
C9_PlayReturnsUploadedBytes ==
    req.op = "play" /\ req.args.song_id \in DOMAIN songs =>
      /\ resp.status = 200
      /\ resp.bytes = uploaded[req.args.song_id].bytes

\* C10: get and list are answered 401 exactly when the session holds no
\* user_id; play is answered with or without a session, and 404 exactly
\* when the row is absent; none of the three changes users, songs, blobs
\* or the session.
C10_ReadAccess ==
    [][ /\ ( req'.op \in {"get", "list"} =>
               (resp'.status = 401 <=> session[req'.client] = {}) )
        /\ ( req'.op = "play" =>
               /\ resp'.status \in {200, 404}
               /\ resp'.status = 404 <=>
                    req'.args.song_id \notin DOMAIN songs )
        /\ ( req'.op \in {"get", "list", "play"} =>
               UNCHANGED <<users, userSeq, songs, songSeq, blobs, session>> )
      ]_vars

\* C11: a session holds at most one user_id, and one of a registered user.
\* It changes only when a login or a logout of its client is answered 200:
\* the login sets it to the id of the user of the given username (whatever
\* it held), the logout empties it.  A login answered otherwise leaves it
\* as it was; a logout without a user_id is answered 401 and changes
\* nothing.
C11_SessionLifecycle ==
    [][ /\ \A c \in Clients :
             /\ Cardinality(session'[c]) <= 1
             /\ session'[c] \subseteq DOMAIN users'
             /\ session'[c] # session[c] =>
                  /\ req'.client = c
                  /\ req'.op \in {"login", "logout"}
                  /\ resp'.status = 200
        /\ ( req'.op = "login" /\ inflight' = inflight =>
               LET c == req'.client
               IN  IF resp'.status = 200
                   THEN /\ Cardinality(session'[c]) = 1
                        /\ \A i \in session'[c] :
                             req'.args.username = Some(users[i].username)
                   ELSE session'[c] = session[c] )
        /\ ( req'.op = "logout" /\ inflight' = inflight =>
               LET c == req'.client
               IN  IF session[c] = {}
                   THEN resp'.status = 401 /\ UNCHANGED <<session, users>>
                   ELSE resp'.status = 200 /\ session'[c] = {} )
      ]_vars

\* A client logged out while the other client's session still holds the
\* id of the second user.
C11_Witness ==
    /\ req.op = "logout"
    /\ resp.status = 200
    /\ session[req.client] = {}
    /\ \E c \in Clients : session[c] = {2}

\* C12: under every interleaving of the steps of upload and delete
\* requests, an upload answered 200 returns an id that no upload answered
\* before it returned and that no song held before, deleted songs and the
\* one that held the highest id included; the row stored under the id is
\* the row of this upload, and the rows of the other songs are as they
\* were.
C12_SongIdsNeverShared ==
    [][ \A c \in Clients :
          inflight[c].op = "upload" /\ inflight'[c] = Idle
                                    /\ resp'.status = 200
          => LET id == resp'.id
                 u == inflight[c].form
             IN  /\ req'.client = c
                 /\ id \notin DOMAIN uploaded
                 /\ id \notin deletedIds
                 /\ id \notin DOMAIN songs
                 /\ \A i \in DOMAIN uploaded \cup deletedIds : i < id
                 /\ DOMAIN songs' = DOMAIN songs \cup {id}
                 /\ songs'[id] = [title |-> Val(u.title),
                                  author |-> Val(u.author),
                                  duration |-> inflight[c].duration,
                                  music_file_url |->
                                      inflight[c].music_file_url]
                 /\ \A i \in DOMAIN songs : songs'[i] = songs[i]
      ]_vars

\* An upload was answered with a new id after the song of the highest id
\* had been deleted, while the upload of another client is in flight.
C12_Witness ==
    /\ req.op = "upload"
    /\ resp.status = 200
    /\ resp.id - 1 \in deletedIds
    /\ DOMAIN songs = {resp.id}
    /\ \E d \in Clients : inflight[d].op = "upload"

\* C13: a delete that found its row goes through the file and then the row:
\* a file that is not there is passed over without an error, a file that is
\* there is removed while the row still stands, and the row is removed only
\* when the file is gone; the delete is answered 200, and then neither the
\* row nor the file it named is left.
C13_DeleteBlobThenRow ==
    [][ \A c \in Clients :
          inflight[c].op = "delete" =>
            LET id == inflight[c].song_id
                file == inflight[c].file_path
            IN  /\ id \in DOMAIN songs
                /\ songs[id].music_file_url = file
                /\ ( inflight[c].pc = "exists" =>
                       /\ inflight'[c].op = "delete"
                       /\ file \notin DOMAIN blobs
                            => inflight'[c].pc = "commit"
                       /\ UNCHANGED <<songs, blobs, req, resp>> )
                /\ ( inflight[c].pc = "remove" =>
                       /\ file \in DOMAIN blobs
                       /\ file \notin DOMAIN blobs'
                       /\ inflight'[c].op = "delete"
                       /\ inflight'[c].pc = "commit"
                       /\ UNCHANGED <<songs, req, resp>> )
                /\ ( inflight[c].pc = "commit" =>
                       /\ file \notin DOMAIN blobs
                       /\ inflight'[c] = Idle
                       /\ req' = Request("delete", c, [song_id |-> id])
                       /\ resp'.status = 200
                       /\ id \notin DOMAIN songs'
                       /\ file \notin DOMAIN blobs' )
      ]_vars

\* Songs 1 and 2 were uploaded under one file name, song 2 was deleted and
\* the file with it, and then the delete of song 1, whose file was gone,
\* was answered 200.
C13_Witness ==
    /\ req.op = "delete"
    /\ resp.status = 200
    /\ req.args.song_id = 1
    /\ deletedIds = {1, 2}
    /\ DOMAIN uploaded = {1, 2}
    /\ uploaded[1].music_file_url = uploaded[2].music_file_url
    /\ songs = EmptyTable
    /\ blobs = EmptyTable

\* C14: an upload request that wrote a file into the song directory ends
\* with a new row that names the file, and is not answered 500, also when
\* the INSERT is rejected.
C14_NoOrphanedBlob ==
    [][ req'.op = "upload" /\ blobs' # blobs =>
          /\ \E i \in DOMAIN songs' \ DOMAIN songs :
               /\ songs'[i].music_file_url \in DOMAIN blobs'
               /\ \A f \in DOMAIN blobs' :
                    f # songs'[i].music_file_url =>
                      f \in DOMAIN blobs /\ blobs'[f] = blobs[f]
          /\ resp'.status # 500
      ]_vars

\* C15: of two deletes of one song id that are served at the same time, one
\* is answered 200 and the other 404: a delete that found the row is
\* answered 404, and changes nothing, when another delete of the id has
\* been answered 200 meanwhile, and it is not answered 500 on account of
\* the other.
C15_OneDeleteSucceeds ==
    [][ \A c \in Clients :
          inflight[c].op = "delete" /\ inflight'[c] = Idle =>
            LET id == inflight[c].song_id
                rival == \E d \in Clients \ {c} :
                            /\ inflight[d].op = "delete"
                            /\ inflight[d].song_id = id
            IN  /\ id \in deletedIds =>
                     /\ resp'.status = 404
                     /\ UNCHANGED <<songs, blobs>>
                /\ rival \/ id \in deletedIds => resp'.status # 500
      ]_vars

====
